---- MODULE Spec2Model ----
(***************************************************************************)
(* Model of src/data_cleaner/txt_to_json.py: the conversion of the        *)
(* tab-delimited memetracker text files into per-file JSON documents.     *)
(*                                                                         *)
(* A string is a sequence of characters; a character is a one-element     *)
(* token ("P", the tab, a blank, or an opaque token such as                *)
(* "http://a.com" standing for a run of non-blank, non-tab characters).    *)
(***************************************************************************)
EXTENDS Integers, Sequences, FiniteSets, TLC

\* ------------------------------------------------------------------ bounds
MaxFiles == 2       \* files converted in one batch run
MaxLines == 5       \* lines read from the file in the single-file specification
MaxBatchLines == 8  \* lines read from all the files of one batch run
MaxUnread == 1      \* lines left unread behind a decoding error
MaxLineLen == 4     \* characters of a raw line in the per-call specification

\* -------------------------------------------------------------- characters
Tab == "\t"
Newline == "\n"
Space == " "
Whitespace == {Space, Tab, Newline, "\r"}

\* str.strip(): removes leading AND trailing whitespace (line 189)
RECURSIVE lstrip(_)
lstrip(s) == IF s # <<>> /\ Head(s) \in Whitespace THEN lstrip(Tail(s)) ELSE s

RECURSIVE rstrip(_)
rstrip(s) ==
    IF s # <<>> /\ s[Len(s)] \in Whitespace
    THEN rstrip(SubSeq(s, 1, Len(s) - 1))
    ELSE s

strip(s) == rstrip(lstrip(s))

\* str.split('\t'): the pieces between the tabs, at least one piece (line 196)
RECURSIVE split(_)
split(s) ==
    IF \E i \in 1..Len(s) : s[i] = Tab
    THEN LET i == CHOOSE k \in 1..Len(s) :
                      s[k] = Tab /\ \A j \in 1..(k - 1) : s[j] # Tab
         IN  <<SubSeq(s, 1, i - 1)>> \o split(SubSeq(s, i + 1, Len(s)))
    ELSE <<s>>

\* --------------------------------------------------------- record building
construct_meme_data_tracker_dict == [P |-> <<>>, T |-> <<>>, Q |-> <<>>, L |-> <<>>]

\* mutant: the counter is incremented before the record is built
MemeRecordIdAfterIncrement(d, meme_record_id) ==
    [url |-> d.P, id_num |-> meme_record_id + 1, timestamp |-> d.T,
     phrases |-> d.Q, links |-> d.L]

\* the value stored under the url key (lines 138-144)
MemeRecord(d, meme_record_id) ==
    [url |-> d.P, id_num |-> meme_record_id, timestamp |-> d.T,
     phrases |-> d.Q, links |-> d.L]

\* mutant: the record is stored under its timestamp
add_data_keyed_by_timestamp(d, data, meme_record_id) ==
    [k \in DOMAIN data \cup {d.T} |->
        IF k = d.T THEN MemeRecord(d, meme_record_id) ELSE data[k]]

\* mutant: a url already present keeps its first record
add_data_keep_first(d, data, meme_record_id) ==
    [k \in DOMAIN data \cup {d.P} |->
        IF k \in DOMAIN data THEN data[k] ELSE MemeRecord(d, meme_record_id)]

add_data_to_json_file_data_dict(d, data, meme_record_id) ==
    [k \in DOMAIN data \cup {d.P} |->
        IF k = d.P THEN MemeRecord(d, meme_record_id) ELSE data[k]]

\* mutant: split('\t', 1) semantics, anything behind a second tab is content
process_txt_file_line_maxsplit(line, d) ==
    LET parts == split(strip(line))
    IN  IF Len(parts) < 2
        THEN [continues |-> FALSE, dict |-> d]
        ELSE IF parts[1] \in {<<"P">>, <<"T">>}
        THEN [continues |-> TRUE, dict |-> [d EXCEPT ![parts[1][1]] = parts[2]]]
        ELSE IF parts[1] \in {<<"Q">>, <<"L">>}
        THEN [continues |-> TRUE,
              dict |-> [d EXCEPT ![parts[1][1]] = Append(@, parts[2])]]
        ELSE [continues |-> TRUE, dict |-> d]

\* mutant: a P or T field already set is kept
process_txt_file_line_first_wins(line, d) ==
    LET parts == split(strip(line))
    IN  IF Len(parts) # 2
        THEN [continues |-> FALSE, dict |-> d]
        ELSE IF parts[1] \in {<<"P">>, <<"T">>}
        THEN [continues |-> TRUE,
              dict |-> IF d[parts[1][1]] = <<>>
                       THEN [d EXCEPT ![parts[1][1]] = parts[2]] ELSE d]
        ELSE IF parts[1] \in {<<"Q">>, <<"L">>}
        THEN [continues |-> TRUE,
              dict |-> [d EXCEPT ![parts[1][1]] = Append(@, parts[2])]]
        ELSE [continues |-> TRUE, dict |-> d]

\* mutant: Q and L contents are inserted at the front
process_txt_file_line_prepend(line, d) ==
    LET parts == split(strip(line))
    IN  IF Len(parts) # 2
        THEN [continues |-> FALSE, dict |-> d]
        ELSE IF parts[1] \in {<<"P">>, <<"T">>}
        THEN [continues |-> TRUE, dict |-> [d EXCEPT ![parts[1][1]] = parts[2]]]
        ELSE IF parts[1] \in {<<"Q">>, <<"L">>}
        THEN [continues |-> TRUE,
              dict |-> [d EXCEPT ![parts[1][1]] = <<parts[2]>> \o @]]
        ELSE [continues |-> TRUE, dict |-> d]

\* mutant: an unrecognized tag is reported as a boundary
process_txt_file_line_strict(line, d) ==
    LET parts == split(strip(line))
    IN  IF Len(parts) # 2
        THEN [continues |-> FALSE, dict |-> d]
        ELSE IF parts[1] \in {<<"P">>, <<"T">>}
        THEN [continues |-> TRUE, dict |-> [d EXCEPT ![parts[1][1]] = parts[2]]]
        ELSE IF parts[1] \in {<<"Q">>, <<"L">>}
        THEN [continues |-> TRUE,
              dict |-> [d EXCEPT ![parts[1][1]] = Append(@, parts[2])]]
        ELSE [continues |-> FALSE, dict |-> d]

\* mutant: a P line starts a new record, the phrases and links are emptied
process_txt_file_line_p_clears(line, d) ==
    LET parts == split(strip(line))
    IN  IF Len(parts) # 2
        THEN [continues |-> FALSE, dict |-> d]
        ELSE IF parts[1] = <<"P">>
        THEN [continues |-> TRUE,
              dict |-> [d EXCEPT !.P = parts[2], !.Q = <<>>, !.L = <<>>]]
        ELSE IF parts[1] = <<"T">>
        THEN [continues |-> TRUE, dict |-> [d EXCEPT !.T = parts[2]]]
        ELSE IF parts[1] \in {<<"Q">>, <<"L">>}
        THEN [continues |-> TRUE,
              dict |-> [d EXCEPT ![parts[1][1]] = Append(@, parts[2])]]
        ELSE [continues |-> TRUE, dict |-> d]

\* process_txt_file_line: the returned boolean and the accumulator it leaves
process_txt_file_line(line, d) ==
    LET parts == split(strip(line))
    IN  IF Len(parts) # 2
        THEN [continues |-> FALSE, dict |-> d]
        ELSE LET content_identifier == parts[1]
                 line_content == parts[2]
             IN  IF content_identifier \in {<<"P">>, <<"T">>}
                 THEN [continues |-> TRUE,
                       dict |-> [d EXCEPT ![content_identifier[1]] = line_content]]
                 ELSE IF content_identifier \in {<<"Q">>, <<"L">>}
                 THEN [continues |-> TRUE,
                       dict |-> [d EXCEPT ![content_identifier[1]] =
                                              Append(@, line_content)]]
                 ELSE [continues |-> TRUE, dict |-> d]

\* ------------------------------------------------------------- input lines
\* the raw lines the input files of the batch are made of
InputLines ==
    { <<"P", Tab, "http://a.com", Newline>>,
      <<"P", Tab, "http://b.com", Newline>>,
      <<"T", Tab, "2008-01-01", Newline>>,
      <<"Q", Tab, "hello", Space, "world", Newline>>,
      <<"Q", Tab, "world", Newline>>,
      <<"L", Tab, "http://b.com", Newline>>,
      <<"X", Tab, "junk", Newline>>,
      <<Newline>> }

\* the raw lines of the input files in the specification of the batch driver
BatchLines ==
    { <<"P", Tab, "http://a.com", Newline>>,
      <<"P", Tab, "http://b.com", Newline>>,
      <<Newline>> }

\* the lines a file may hold behind the place of a decoding error
UnreadLines == { <<Newline>> }

\* sequences of at most n elements of S
SeqsUpTo(S, n) == UNION { [1..k -> S] : k \in 0..n }

\* ------------------------------------------------------------------- state
VARIABLES
    pc,                         \* position of the program
    fileNo,                     \* files of input_file_names taken so far
    record_id,                  \* the driver's counter (line 308)
    meme_record_id,             \* the converter's counter (parameter, line 261)
    individual_meme_data_dict,  \* the accumulator
    output_json_file_data,      \* the per-file output mapping
    disk,                       \* output file of each input file
    linesRead,                  \* lines iterated so far in the run
    file_line,                  \* last raw line handed to process_txt_file_line
    before,                     \* the accumulator before that call
    after,                      \* the accumulator after that call
    continues,                  \* what that call returned
    consumed,                   \* history: lines of the current file iterated so far
    seen,                       \* history: raw lines processed since the last reset
    emitted,                    \* history: records added for the current file
    assigned,                   \* history: id_num of every record added in the run
    starts,                     \* history: start id of every conversion
    returned,                   \* history: id returned by every conversion
    decodeError,                \* the current file's loop ended in UnicodeDecodeError
    unread,                     \* history: lines of the last file behind the error
    inputDirExists,             \* input_directory_path is a directory (line 291)
    outputDirExists,            \* output_json_directory_path is a directory (line 296)
    outPath,                    \* output_json_file_path of the current conversion
    listObjects                 \* identities of the list objects of the call

vars == <<pc, fileNo, record_id, meme_record_id, individual_meme_data_dict,
          output_json_file_data, disk, linesRead, file_line, before, after,
          continues, consumed, seen, emitted, assigned, starts, returned,
          decodeError, unread, inputDirExists, outputDirExists, outPath,
          listObjects>>

dirVars == <<inputDirExists, outputDirExists>>

EmptyDoc == [k \in {} |-> 0]

\* an output path: not there, opened for writing and still empty (line 242),
\* or holding the JSON document (line 266)
Absent == [status |-> "absent", doc |-> EmptyDoc]
Truncated == [status |-> "empty", doc |-> EmptyDoc]
Written(data) == [status |-> "written", doc |-> data]

callVars == <<file_line, before, after, continues>>

\* the output paths the next file of input_file_names may map to (lines 238,
\* 240): a path an earlier file of the list was written to, when the list
\* names a file twice, or a new one; paths are numbered in order of first use
NextPaths ==
    { p \in 1..MaxFiles :
        p <= Cardinality({ q \in 1..MaxFiles : disk[q].status # "absent" }) + 1 }

\* the list objects of one conversion: Q and L are the identities of the
\* accumulator's two lists, held the identities of the lists the inserted
\* records refer to, made the number of lists created so far
NoLists == [Q |-> 0, L |-> 0, held |-> {}, made |-> 0]

\* mutant: the reset empties the accumulator but keeps its two list objects
ConstructOnce(lo) ==
    IF lo.made = 0
    THEN [lo EXCEPT !.Q = 1, !.L = 2, !.made = 2]
    ELSE lo

\* lines 157-162: the dictionary literal creates two new lists
Construct(lo) ==
    [lo EXCEPT !.Q = lo.made + 1, !.L = lo.made + 2, !.made = lo.made + 2]

\* lines 142-143: the record refers to the accumulator's own lists
Insert(lo) == [lo EXCEPT !.held = lo.held \cup {lo.Q, lo.L}]

Init ==
    /\ pc = "start"
    /\ fileNo = 0
    /\ record_id = 0
    /\ meme_record_id = 0
    /\ individual_meme_data_dict = construct_meme_data_tracker_dict
    /\ output_json_file_data = EmptyDoc
    /\ disk = [f \in 1..MaxFiles |-> Absent]
    /\ linesRead = 0
    /\ file_line = <<>>
    /\ before = construct_meme_data_tracker_dict
    /\ after = construct_meme_data_tracker_dict
    /\ continues = TRUE
    /\ consumed = <<>>
    /\ seen = <<>>
    /\ emitted = <<>>
    /\ assigned = <<>>
    /\ starts = <<>>
    /\ returned = <<>>
    /\ decodeError = FALSE
    /\ unread = <<>>
    /\ inputDirExists \in BOOLEAN
    /\ outputDirExists \in BOOLEAN
    /\ outPath = 0
    /\ listObjects = NoLists

\* mutant: the output directory is created before the input directory is
\* looked at
InvalidInputDirectoryAfterMakeDirs ==
    /\ pc = "start"
    /\ ~inputDirExists
    /\ outputDirExists' = TRUE
    /\ pc' = "done"
    /\ UNCHANGED <<fileNo, record_id, meme_record_id,
                   individual_meme_data_dict, output_json_file_data, disk,
                   linesRead, callVars, consumed, seen, emitted, assigned, starts,
                   returned, decodeError, unread, inputDirExists, outPath,
                   listObjects>>

\* lines 291-293: the input directory does not exist, the driver returns
InvalidInputDirectory ==
    /\ pc = "start"
    /\ ~inputDirExists
    /\ pc' = "done"
    /\ UNCHANGED <<fileNo, record_id, meme_record_id,
                   individual_meme_data_dict, output_json_file_data, disk,
                   linesRead, callVars, consumed, seen, emitted, assigned, starts,
                   returned, decodeError, unread, dirVars, outPath, listObjects>>

\* line 296: the output directory is there; line 308
OutputDirectoryExists ==
    /\ pc = "start"
    /\ inputDirExists
    /\ outputDirExists
    /\ pc' = "driver"
    /\ UNCHANGED <<fileNo, record_id, meme_record_id,
                   individual_meme_data_dict, output_json_file_data, disk,
                   linesRead, callVars, consumed, seen, emitted, assigned, starts,
                   returned, decodeError, unread, dirVars, outPath, listObjects>>

\* lines 296-299: os.makedirs creates the output directory; line 308
MakeDirs ==
    /\ pc = "start"
    /\ inputDirExists
    /\ ~outputDirExists
    /\ outputDirExists' = TRUE
    /\ pc' = "driver"
    /\ UNCHANGED <<fileNo, record_id, meme_record_id,
                   individual_meme_data_dict, output_json_file_data, disk,
                   linesRead, callVars, consumed, seen, emitted, assigned, starts,
                   returned, decodeError, unread, inputDirExists, outPath,
                   listObjects>>

\* lines 299-303: os.makedirs raises FileNotFoundError (an empty path), the
\* handler logs and the driver returns
MakeDirsFileNotFoundError ==
    /\ pc = "start"
    /\ inputDirExists
    /\ ~outputDirExists
    /\ pc' = "done"
    /\ UNCHANGED <<fileNo, record_id, meme_record_id,
                   individual_meme_data_dict, output_json_file_data, disk,
                   linesRead, callVars, consumed, seen, emitted, assigned, starts,
                   returned, decodeError, unread, dirVars, outPath, listObjects>>

\* lines 299-300: os.makedirs raises another OSError (FileExistsError when the
\* path is a regular file, NotADirectoryError, PermissionError); the handler
\* names FileNotFoundError only, so the exception leaves the driver
MakeDirsOSError ==
    /\ pc = "start"
    /\ inputDirExists
    /\ ~outputDirExists
    /\ pc' = "raised"
    /\ UNCHANGED <<fileNo, record_id, meme_record_id,
                   individual_meme_data_dict, output_json_file_data, disk,
                   linesRead, callVars, consumed, seen, emitted, assigned, starts,
                   returned, decodeError, unread, dirVars, outPath, listObjects>>

\* mutant: every file is converted from id 0
OpenFileFromZero ==
    /\ pc = "driver"
    /\ fileNo < MaxFiles
    /\ fileNo' = fileNo + 1
    /\ meme_record_id' = 0
    /\ starts' = Append(starts, 0)
    /\ \E path \in NextPaths :
          /\ outPath' = path
          /\ disk' = [disk EXCEPT ![path] = Truncated]
    /\ listObjects' = Construct(listObjects)
    /\ output_json_file_data' = EmptyDoc
    /\ individual_meme_data_dict' = construct_meme_data_tracker_dict
    /\ consumed' = <<>>
    /\ seen' = <<>>
    /\ emitted' = <<>>
    /\ decodeError' = FALSE
    /\ unread' = <<>>
    /\ pc' = "read"
    /\ UNCHANGED <<record_id, linesRead, assigned, returned, callVars, dirVars>>

\* mutant: the output file is opened only when the document is written
OpenFileWritesLate ==
    /\ pc = "driver"
    /\ fileNo < MaxFiles
    /\ fileNo' = fileNo + 1
    /\ meme_record_id' = record_id
    /\ starts' = Append(starts, record_id)
    /\ \E path \in NextPaths :
          /\ outPath' = path
          /\ disk' = disk
    /\ listObjects' = Construct(listObjects)
    /\ output_json_file_data' = EmptyDoc
    /\ individual_meme_data_dict' = construct_meme_data_tracker_dict
    /\ consumed' = <<>>
    /\ seen' = <<>>
    /\ emitted' = <<>>
    /\ decodeError' = FALSE
    /\ unread' = <<>>
    /\ pc' = "read"
    /\ UNCHANGED <<record_id, linesRead, assigned, returned, callVars, dirVars>>

\* lines 309-311 and 232-248: the next file exists, the converter is entered,
\* the output file is opened for writing (created or truncated)
OpenFile ==
    /\ pc = "driver"
    /\ fileNo < MaxFiles
    /\ fileNo' = fileNo + 1
    /\ meme_record_id' = record_id
    /\ starts' = Append(starts, record_id)
    /\ \E path \in NextPaths :
          /\ outPath' = path
          /\ disk' = [disk EXCEPT ![path] = Truncated]
    /\ listObjects' = Construct(listObjects)
    /\ output_json_file_data' = EmptyDoc
    /\ individual_meme_data_dict' = construct_meme_data_tracker_dict
    /\ consumed' = <<>>
    /\ seen' = <<>>
    /\ emitted' = <<>>
    /\ decodeError' = FALSE
    /\ unread' = <<>>
    /\ pc' = "read"
    /\ UNCHANGED <<record_id, linesRead, assigned, returned, callVars, dirVars>>

\* mutant: the output file is opened before the input file is looked for
MissingFileOpensOutput ==
    /\ pc = "driver"
    /\ fileNo < MaxFiles
    /\ fileNo' = fileNo + 1
    /\ record_id' = record_id
    /\ starts' = Append(starts, record_id)
    /\ returned' = Append(returned, record_id)
    /\ \E path \in NextPaths : disk' = [disk EXCEPT ![path] = Truncated]
    /\ UNCHANGED <<pc, meme_record_id, individual_meme_data_dict,
                   output_json_file_data, linesRead, callVars, consumed,
                   seen, emitted, assigned, decodeError, unread, dirVars,
                   outPath, listObjects>>

\* lines 234-236: the next file does not exist, the id comes back unchanged
MissingFile ==
    /\ pc = "driver"
    /\ fileNo < MaxFiles
    /\ fileNo' = fileNo + 1
    /\ record_id' = record_id
    /\ starts' = Append(starts, record_id)
    /\ returned' = Append(returned, record_id)
    /\ UNCHANGED <<pc, meme_record_id, individual_meme_data_dict,
                   output_json_file_data, disk, linesRead, callVars, consumed,
                   seen, emitted, assigned, decodeError, unread, dirVars,
                   outPath, listObjects>>

\* mutant: a boundary line met with an empty accumulator gives no record
ReadLineSkipsEmpty(line) ==
    /\ pc = "read"
    /\ linesRead' = linesRead + 1
    /\ consumed' = Append(consumed, line)
    /\ LET r == process_txt_file_line(line, individual_meme_data_dict)
       IN  /\ file_line' = line
           /\ before' = individual_meme_data_dict
           /\ after' = r.dict
           /\ continues' = r.continues
           /\ IF r.continues
              THEN /\ individual_meme_data_dict' = r.dict
                   /\ seen' = Append(seen, line)
                   /\ UNCHANGED <<output_json_file_data, meme_record_id,
                                  emitted, assigned, listObjects>>
              ELSE IF r.dict = construct_meme_data_tracker_dict
              THEN /\ seen' = <<>>
                   /\ UNCHANGED <<individual_meme_data_dict,
                                  output_json_file_data, meme_record_id,
                                  emitted, assigned, listObjects>>
              ELSE /\ output_json_file_data' =
                         add_data_to_json_file_data_dict(
                             r.dict, output_json_file_data, meme_record_id)
                   /\ emitted' = Append(emitted,
                         MemeRecord(r.dict, meme_record_id))
                   /\ assigned' = Append(assigned, meme_record_id)
                   /\ individual_meme_data_dict' =
                         construct_meme_data_tracker_dict
                   /\ listObjects' = Construct(Insert(listObjects))
                   /\ meme_record_id' = meme_record_id + 1
                   /\ seen' = <<>>
    /\ UNCHANGED <<pc, fileNo, record_id, disk, starts, returned,
                   decodeError, unread, dirVars, outPath>>

\* lines 252-261: one iteration of the loop over the lines of the file
ReadLine(line) ==
    /\ pc = "read"
    /\ linesRead' = linesRead + 1
    /\ consumed' = Append(consumed, line)
    /\ LET r == process_txt_file_line(line, individual_meme_data_dict)
       IN  /\ file_line' = line
           /\ before' = individual_meme_data_dict
           /\ after' = r.dict
           /\ continues' = r.continues
           /\ IF r.continues
              THEN /\ individual_meme_data_dict' = r.dict
                   /\ seen' = Append(seen, line)
                   /\ UNCHANGED <<output_json_file_data, meme_record_id,
                                  emitted, assigned, listObjects>>
              ELSE /\ output_json_file_data' =
                         add_data_to_json_file_data_dict(
                             r.dict, output_json_file_data, meme_record_id)
                   /\ emitted' = Append(emitted,
                         MemeRecord(r.dict, meme_record_id))
                   /\ assigned' = Append(assigned, meme_record_id)
                   /\ individual_meme_data_dict' =
                         construct_meme_data_tracker_dict
                   /\ listObjects' = Construct(Insert(listObjects))
                   /\ meme_record_id' = meme_record_id + 1
                   /\ seen' = <<>>
    /\ UNCHANGED <<pc, fileNo, record_id, disk, starts, returned,
                   decodeError, unread, dirVars, outPath>>

\* mutant: a pending record is flushed when the iterator is exhausted
EndOfFileFlush ==
    /\ pc = "read"
    /\ pc' = "write"
    /\ IF individual_meme_data_dict = construct_meme_data_tracker_dict
       THEN UNCHANGED <<output_json_file_data, meme_record_id>>
       ELSE /\ output_json_file_data' =
                  add_data_to_json_file_data_dict(individual_meme_data_dict,
                      output_json_file_data, meme_record_id)
            /\ meme_record_id' = meme_record_id + 1
    /\ UNCHANGED <<fileNo, record_id, individual_meme_data_dict, disk,
                   linesRead, callVars, consumed, seen, emitted, assigned,
                   starts, returned, decodeError, unread, dirVars, outPath,
                   listObjects>>

\* line 252: the iterator is exhausted, the loop ends
EndOfFile ==
    /\ pc = "read"
    /\ pc' = "write"
    /\ UNCHANGED <<fileNo, record_id, meme_record_id,
                   individual_meme_data_dict, output_json_file_data, disk,
                   linesRead, callVars, consumed, seen, emitted, assigned, starts,
                   returned, decodeError, unread, dirVars, outPath, listObjects>>

\* mutant: the handler sits inside the loop, the iteration goes on
UnicodeDecodeErrorSkip(rest) ==
    /\ pc = "read"
    /\ decodeError' = TRUE
    /\ unread' = rest
    /\ pc' = "read"
    /\ UNCHANGED <<fileNo, record_id, meme_record_id,
                   individual_meme_data_dict, output_json_file_data, disk,
                   linesRead, callVars, consumed, seen, emitted, assigned,
                   starts, returned, dirVars, outPath, listObjects>>

\* lines 252, 264-265: reading the next chunk of the file raises
\* UnicodeDecodeError; the handler is outside the loop, so the loop is over.
\* rest: the lines of the file that were never handed to the loop.
UnicodeDecodeError(rest) ==
    /\ pc = "read"
    /\ decodeError' = TRUE
    /\ unread' = rest
    /\ pc' = "write"
    /\ UNCHANGED <<fileNo, record_id, meme_record_id,
                   individual_meme_data_dict, output_json_file_data, disk,
                   linesRead, callVars, consumed, seen, emitted, assigned, starts,
                   returned, dirVars, outPath, listObjects>>

\* mutant: after a decoding error the caller gets the start id back
WriteFileRestartsOnError ==
    /\ pc = "write"
    /\ disk' = [disk EXCEPT ![outPath] = Written(output_json_file_data)]
    /\ outPath' = 0
    /\ listObjects' = NoLists
    /\ record_id' = IF decodeError THEN starts[Len(starts)] ELSE meme_record_id
    /\ returned' = Append(returned, record_id')
    /\ pc' = "driver"
    /\ meme_record_id' = 0
    /\ individual_meme_data_dict' = construct_meme_data_tracker_dict
    /\ output_json_file_data' = EmptyDoc
    /\ file_line' = <<>>
    /\ before' = construct_meme_data_tracker_dict
    /\ after' = construct_meme_data_tracker_dict
    /\ continues' = TRUE
    /\ consumed' = <<>>
    /\ seen' = <<>>
    /\ emitted' = <<>>
    /\ decodeError' = FALSE
    /\ UNCHANGED <<fileNo, linesRead, assigned, starts, unread, dirVars>>

\* lines 266-267 and 311: the document is written, the counter is returned
\* and becomes the driver's record_id; the locals of the call are gone
WriteFile ==
    /\ pc = "write"
    /\ disk' = [disk EXCEPT ![outPath] = Written(output_json_file_data)]
    /\ outPath' = 0
    /\ listObjects' = NoLists
    /\ record_id' = meme_record_id
    /\ returned' = Append(returned, meme_record_id)
    /\ pc' = "driver"
    /\ meme_record_id' = 0
    /\ individual_meme_data_dict' = construct_meme_data_tracker_dict
    /\ output_json_file_data' = EmptyDoc
    /\ file_line' = <<>>
    /\ before' = construct_meme_data_tracker_dict
    /\ after' = construct_meme_data_tracker_dict
    /\ continues' = TRUE
    /\ consumed' = <<>>
    /\ seen' = <<>>
    /\ emitted' = <<>>
    /\ decodeError' = FALSE
    /\ UNCHANGED <<fileNo, linesRead, assigned, starts, unread, dirVars>>

\* lines 309, 313: input_file_names is exhausted
Finish ==
    /\ pc = "driver"
    /\ pc' = "done"
    /\ UNCHANGED <<fileNo, record_id, meme_record_id,
                   individual_meme_data_dict, output_json_file_data, disk,
                   linesRead, callVars, consumed, seen, emitted, assigned, starts,
                   returned, decodeError, unread, dirVars, outPath, listObjects>>

\* the batch driver over files made of BatchLines
Next ==
    \/ InvalidInputDirectory
    \/ OutputDirectoryExists
    \/ MakeDirs
    \/ MakeDirsFileNotFoundError
    \/ MakeDirsOSError
    \/ OpenFile
    \/ MissingFile
    \/ \E line \in BatchLines : linesRead < MaxBatchLines /\ ReadLine(line)
    \/ EndOfFile
    \/ \E rest \in SeqsUpTo(UnreadLines, MaxUnread) : UnicodeDecodeError(rest)
    \/ WriteFile
    \/ Finish

Spec == Init /\ [][Next]_vars

\* ------------------------------------------------ one call of the converter
\* convert_txt_file_to_json called once, from one of the start ids, on a file
\* made of InputLines
StartIds == {0, 3}

FileInit ==
    /\ pc = "driver"
    /\ fileNo = 0
    /\ record_id \in StartIds
    /\ meme_record_id = 0
    /\ individual_meme_data_dict = construct_meme_data_tracker_dict
    /\ output_json_file_data = EmptyDoc
    /\ disk = [f \in 1..MaxFiles |-> Absent]
    /\ linesRead = 0
    /\ file_line = <<>>
    /\ before = construct_meme_data_tracker_dict
    /\ after = construct_meme_data_tracker_dict
    /\ continues = TRUE
    /\ consumed = <<>>
    /\ seen = <<>>
    /\ emitted = <<>>
    /\ assigned = <<>>
    /\ starts = <<>>
    /\ returned = <<>>
    /\ decodeError = FALSE
    /\ unread = <<>>
    /\ inputDirExists = TRUE
    /\ outputDirExists = TRUE
    /\ outPath = 0
    /\ listObjects = NoLists

FileNext ==
    \/ fileNo = 0 /\ OpenFile
    \/ fileNo = 0 /\ MissingFile
    \/ \E line \in InputLines : linesRead < MaxLines /\ ReadLine(line)
    \/ EndOfFile
    \/ \E rest \in SeqsUpTo(UnreadLines, MaxUnread) : UnicodeDecodeError(rest)
    \/ WriteFile

FileSpec == FileInit /\ [][FileNext]_vars

\* ------------------------------------------- one call of the line processor
\* process_txt_file_line applied once to an arbitrary raw line and an
\* arbitrary accumulator (the function is pure but for the accumulator)
LineChars == {"P", "T", "Q", "L", "X", Tab, Space}

RawLines == SeqsUpTo(LineChars, MaxLineLen)

TrackerDicts ==
    [P : {<<>>, <<"X">>}, T : {<<>>, <<"X">>},
     Q : {<<>>, << <<"X">> >>}, L : {<<>>, << <<"X">> >>}]

LineInit ==
    /\ pc = "call"
    /\ individual_meme_data_dict \in TrackerDicts
    /\ file_line \in RawLines
    /\ fileNo = 0
    /\ record_id = 0
    /\ meme_record_id = 0
    /\ output_json_file_data = EmptyDoc
    /\ disk = [f \in 1..MaxFiles |-> Absent]
    /\ linesRead = 0
    /\ before = individual_meme_data_dict
    /\ after = individual_meme_data_dict
    /\ continues = TRUE
    /\ consumed = <<>>
    /\ seen = <<>>
    /\ emitted = <<>>
    /\ assigned = <<>>
    /\ starts = <<>>
    /\ returned = <<>>
    /\ decodeError = FALSE
    /\ unread = <<>>
    /\ inputDirExists = TRUE
    /\ outputDirExists = TRUE
    /\ outPath = 0
    /\ listObjects = NoLists

\* lines 165-209: the call; the accumulator is mutated in place
ProcessLine ==
    /\ pc = "call"
    /\ LET r == process_txt_file_line(file_line, individual_meme_data_dict)
       IN  /\ before' = individual_meme_data_dict
           /\ after' = r.dict
           /\ individual_meme_data_dict' = r.dict
           /\ continues' = r.continues
    /\ pc' = "called"
    /\ UNCHANGED <<fileNo, record_id, meme_record_id, output_json_file_data,
                   disk, linesRead, file_line, consumed, seen, emitted,
                   assigned, starts, returned, decodeError, unread, dirVars,
                   outPath, listObjects>>

LineNext == ProcessLine

LineSpec == LineInit /\ [][LineNext]_vars

\* ------------------------------------------------------ notions of the claims
\* number of tab characters of a string
RECURSIVE TabCount(_)
TabCount(s) ==
    IF s = <<>> THEN 0
    ELSE (IF Head(s) = Tab THEN 1 ELSE 0) + TabCount(Tail(s))

\* the line, once stripped, is a tag, one tab and a content
TwoPart(line) == TabCount(strip(line)) = 1

\* the characters before the first tab of the stripped line
RECURSIVE UpToTab(_)
UpToTab(s) ==
    IF s = <<>> \/ Head(s) = Tab THEN <<>> ELSE <<Head(s)>> \o UpToTab(Tail(s))

TagOf(line) == UpToTab(strip(line))

ContentOf(line) ==
    SubSeq(strip(line), Len(TagOf(line)) + 2, Len(strip(line)))

\* a record boundary: the stripped line is not a tag, one tab and a content
Boundary(line) == ~TwoPart(line)

\* what each line of the input files is, worked out once
Parsed ==
    [line \in InputLines \cup BatchLines |->
        [boundary |-> Boundary(line),
         tag |-> IF TwoPart(line) THEN TagOf(line) ELSE <<>>,
         content |-> IF TwoPart(line) THEN ContentOf(line) ELSE <<>>]]

\* number of boundary lines among the lines ls
RECURSIVE BoundaryCount(_)
BoundaryCount(ls) ==
    IF ls = <<>> THEN 0
    ELSE (IF Parsed[Head(ls)].boundary THEN 1 ELSE 0) + BoundaryCount(Tail(ls))

\* contents of the two-part lines of ls tagged tag, in order
RECURSIVE ContentsOf(_, _)
ContentsOf(ls, tag) ==
    IF ls = <<>> THEN <<>>
    ELSE (IF Parsed[Head(ls)].tag = <<tag>>
          THEN <<Parsed[Head(ls)].content>> ELSE <<>>)
         \o ContentsOf(Tail(ls), tag)

\* content of the last line of ls tagged tag, '' when there is none
LastContentOf(ls, tag) ==
    LET cs == ContentsOf(ls, tag)
    IN  IF cs = <<>> THEN <<>> ELSE cs[Len(cs)]

StartId == starts[Len(starts)]

Urls(recs) == { recs[i].url : i \in 1..Len(recs) }

InConversion == pc \in {"read", "write"}

\* ------------------------------------------------------------------ claims
\* C1: in one batch run the first conversion starts at id 0, every later
\* conversion starts at the id the previous one returned, and the ids given
\* to the records, in the order the records are completed, are 0, 1, 2, ...
C1_IdsThreadedWithoutGapOrRepeat ==
    /\ \A i \in 1..Len(assigned) : assigned[i] = i - 1
    /\ Len(returned) \in {Len(starts), Len(starts) - 1}
    /\ \A i \in 1..Len(starts) :
          starts[i] = IF i = 1 THEN 0 ELSE returned[i - 1]

\* three records in the first file and two in the second: ids 0-2 and 3-4
C1_Witness ==
    /\ pc = "done"
    /\ starts = <<0, 3>>
    /\ returned = <<3, 5>>
    /\ assigned = <<0, 1, 2, 3, 4>>
    /\ disk[1].status = "written" /\ disk[2].status = "written"
    /\ { disk[1].doc[k].id_num : k \in DOMAIN disk[1].doc } = {0, 1, 2}
    /\ { disk[2].doc[k].id_num : k \in DOMAIN disk[2].doc } = {3, 4}

ExampleLines ==
    << <<"P", Tab, "http://a.com", Newline>>,
       <<"T", Tab, "2008-01-01", Newline>>,
       <<"Q", Tab, "hello", Space, "world", Newline>>,
       <<"L", Tab, "http://b.com", Newline>>,
       <<Newline>> >>

ExampleRecord ==
    [url |-> <<"http://a.com">>, id_num |-> 0,
     timestamp |-> <<"2008-01-01">>,
     phrases |-> << <<"hello", Space, "world">> >>,
     links |-> << <<"http://b.com">> >>]

\* C2: every call of process_txt_file_line that returns False puts, under the
\* accumulator's url, the record made of the accumulator's fields and of the
\* current counter, leaves the other keys alone, adds exactly 1 to the
\* counter and resets the accumulator to its defaults; the five example
\* lines converted from id 0 give exactly the one example record.
C2_BoundaryEmitsRecordAndResets ==
    /\ [][ (linesRead' = linesRead + 1 /\ ~continues') =>
            LET d == individual_meme_data_dict
            IN  /\ DOMAIN output_json_file_data' =
                      DOMAIN output_json_file_data \cup {d.P}
                /\ output_json_file_data'[d.P] =
                      [url |-> d.P, id_num |-> meme_record_id,
                       timestamp |-> d.T, phrases |-> d.Q, links |-> d.L]
                /\ \A k \in DOMAIN output_json_file_data \ {d.P} :
                      output_json_file_data'[k] = output_json_file_data[k]
                /\ meme_record_id' = meme_record_id + 1
                /\ individual_meme_data_dict' =
                      [P |-> <<>>, T |-> <<>>, Q |-> <<>>, L |-> <<>>] ]_vars
    /\ [](  (InConversion /\ consumed = ExampleLines /\ StartId = 0) =>
            /\ DOMAIN output_json_file_data = {<<"http://a.com">>}
            /\ output_json_file_data[<<"http://a.com">>] = ExampleRecord )

C2_Witness ==
    /\ pc = "write"
    /\ consumed = ExampleLines
    /\ StartId = 0
    /\ ~continues
    /\ output_json_file_data[<<"http://a.com">>] = ExampleRecord
    /\ meme_record_id = 1
    /\ individual_meme_data_dict = construct_meme_data_tracker_dict

C4_PendingRecordDroppedAtEndOfFile ==
    (pc = "write" /\ ~decodeError) =>
        /\ meme_record_id = StartId + BoundaryCount(consumed)
        /\ Len(emitted) = BoundaryCount(consumed)
        /\ \A k \in DOMAIN output_json_file_data :
              \E i \in 1..Len(emitted) : emitted[i] = output_json_file_data[k]

C4_Witness ==
    /\ pc = "write"
    /\ ~decodeError
    /\ seen # <<>>
    /\ individual_meme_data_dict.P # <<>>
    /\ individual_meme_data_dict.Q # <<>>
    /\ individual_meme_data_dict.P \notin DOMAIN output_json_file_data
    /\ Len(emitted) = 1

\* C5 as stated: a decoding error skips one line only, the boundary lines
\* behind it still complete records that are inserted and given ids.
C5_LinesBehindErrorStillProcessed ==
    (pc = "write" /\ decodeError) =>
        /\ meme_record_id = StartId + BoundaryCount(consumed \o unread)
        /\ Len(emitted) = BoundaryCount(consumed \o unread)

\* C5 amended: a decoding error ends the loop over the lines of the file.
\* Nothing behind the place of the error is processed; the mapping and the
\* counter stay what the boundary lines before the error made them, and the
\* next step writes that mapping and returns that counter.
C5_DecodeErrorEndsTheFile ==
    /\ [](decodeError =>
            /\ pc = "write"
            /\ meme_record_id = StartId + BoundaryCount(consumed)
            /\ Len(emitted) = BoundaryCount(consumed))
    /\ [][ /\ (~decodeError /\ decodeError') =>
                 /\ output_json_file_data' = output_json_file_data
                 /\ meme_record_id' = meme_record_id
                 /\ consumed' = consumed
           /\ decodeError =>
                 /\ disk'[outPath] = Written(output_json_file_data)
                 /\ record_id' = meme_record_id
                 /\ linesRead' = linesRead ]_vars

C5_Witness ==
    /\ pc = "write"
    /\ decodeError
    /\ unread = << <<Newline>> >>
    /\ Len(emitted) = 1
    /\ individual_meme_data_dict.P # <<>>
    /\ meme_record_id = StartId + 1

NonEmpty(rec) ==
    rec.url # <<>> \/ rec.timestamp # <<>> \/ rec.phrases # <<>> \/ rec.links # <<>>

PairwiseDistinctUrls(recs) ==
    \A i, j \in 1..Len(recs) : i # j => recs[i].url # recs[j].url

\* C6: a file read to its end whose N boundary lines complete N non-empty
\* records with pairwise distinct urls gives a mapping with exactly N keys,
\* the urls of the records.
C6_DistinctUrlsGiveOneKeyEach ==
    (/\ pc = "write"
     /\ ~decodeError
     /\ PairwiseDistinctUrls(emitted)
     /\ \A i \in 1..Len(emitted) : NonEmpty(emitted[i])) =>
        /\ Cardinality(DOMAIN output_json_file_data) = BoundaryCount(consumed)
        /\ DOMAIN output_json_file_data = Urls(emitted)

C6_Witness ==
    /\ pc = "write"
    /\ ~decodeError
    /\ seen = <<>>
    /\ BoundaryCount(consumed) = 2
    /\ PairwiseDistinctUrls(emitted)
    /\ \A i \in 1..Len(emitted) : emitted[i].url # <<>>
    /\ Cardinality(DOMAIN output_json_file_data) = 2

\* index of the last record of recs with url k
LastWithUrl(recs, k) ==
    CHOOSE i \in 1..Len(recs) :
        recs[i].url = k /\ \A j \in (i + 1)..Len(recs) : recs[j].url # k

\* C7: the mapping has one entry per url of the records completed so far, and
\* the entry is, field by field, the last record completed with that url.
C7_LastRecordWithUrlWins ==
    InConversion =>
        /\ DOMAIN output_json_file_data = Urls(emitted)
        /\ \A k \in DOMAIN output_json_file_data :
              output_json_file_data[k] = emitted[LastWithUrl(emitted, k)]

C7_Witness ==
    /\ pc = "write"
    /\ Len(emitted) = 2
    /\ emitted[1].url = <<"http://a.com">>
    /\ emitted[2].url = <<"http://a.com">>
    /\ emitted[1].phrases # <<>>
    /\ emitted[2].phrases = <<>>
    /\ DOMAIN output_json_file_data = {<<"http://a.com">>}
    /\ output_json_file_data[<<"http://a.com">>] = emitted[2]

\* C8: the accumulator's url is the content of the last two-part line tagged
\* P processed since the last reset, '' when there is none; likewise its
\* timestamp for the tag T.
C8_LastPAndTLineWin ==
    InConversion =>
        /\ individual_meme_data_dict.P = LastContentOf(seen, "P")
        /\ individual_meme_data_dict.T = LastContentOf(seen, "T")

C8_Witness ==
    /\ pc = "read"
    /\ ContentsOf(seen, "P") = << <<"http://a.com">>, <<"http://b.com">> >>
    /\ ContentsOf(seen, "T") # <<>>
    /\ individual_meme_data_dict.P = <<"http://b.com">>
    /\ individual_meme_data_dict.T = <<"2008-01-01">>

\* C9: the accumulator's phrases are the contents of all two-part lines
\* tagged Q processed since the last reset, in the order processed and with
\* duplicates kept; likewise its links for the tag L.
C9_PhrasesAndLinksInOrder ==
    InConversion =>
        /\ individual_meme_data_dict.Q = ContentsOf(seen, "Q")
        /\ individual_meme_data_dict.L = ContentsOf(seen, "L")

C9_Witness ==
    /\ pc = "read"
    /\ individual_meme_data_dict.Q =
          << <<"world">>, <<"hello", Space, "world">>, <<"world">> >>
    /\ individual_meme_data_dict.L = << <<"http://b.com">>, <<"http://b.com">> >>

Unrecognized(line) ==
    TwoPart(line) /\ TagOf(line) \notin {<<"P">>, <<"T">>, <<"Q">>, <<"L">>}

\* the input lines that are two-part lines with a tag other than P, T, Q, L
UnrecognizedInputLines == { line \in InputLines : Unrecognized(line) }

\* C10: a call on a two-part line whose tag is none of P, T, Q, L returns
\* True and changes no field of the accumulator; no record is added, no id
\* is used and the loop over the lines goes on.
C10_UnrecognizedTagIgnored ==
    [][ (linesRead' = linesRead + 1 /\ file_line' \in UnrecognizedInputLines) =>
            /\ continues'
            /\ after' = before'
            /\ individual_meme_data_dict' = individual_meme_data_dict
            /\ output_json_file_data' = output_json_file_data
            /\ meme_record_id' = meme_record_id
            /\ emitted' = emitted
            /\ pc' = "read" ]_vars

C10_Witness ==
    /\ pc = "read"
    /\ file_line \in UnrecognizedInputLines
    /\ consumed # <<>> /\ consumed[Len(consumed)] = file_line
    /\ continues
    /\ before.P # <<>> /\ before.Q # <<>>
    /\ individual_meme_data_dict = before
    /\ emitted = <<>>

\* C11: when the next file of the list does not exist, the conversion hands
\* the driver's id back unchanged, raises nothing, and creates or changes no
\* output file; the file after it is converted starting from that same id.
C11_MissingFileLeavesIdAndOutputs ==
    [][ /\ (pc = "driver" /\ fileNo' = fileNo + 1 /\ pc' # "read") =>
              /\ pc' = "driver"
              /\ record_id' = record_id
              /\ returned' = Append(returned, record_id)
              /\ disk' = disk
              /\ assigned' = assigned
        /\ (pc = "driver" /\ pc' = "read") =>
              /\ meme_record_id' = record_id
              /\ starts' = Append(starts, record_id) ]_vars

\* the first file gave the records 0 and 1, the second file of the list is
\* missing: the driver holds 2 as before, the first output is what it was
\* (a conversion would have emptied it or made a second output)
C11_Witness ==
    /\ pc = "done"
    /\ starts = <<0, 2>>
    /\ returned = <<2, 2>>
    /\ record_id = 2
    /\ disk[1].status = "written"
    /\ { disk[1].doc[k].id_num : k \in DOMAIN disk[1].doc } = {0, 1}
    /\ disk[2].status = "absent"

\* what the parts of a split line do to the accumulator d, and the boolean
\* handed back
ResultOfParts(parts, d) ==
    IF Len(parts) # 2
    THEN [continues |-> FALSE, dict |-> d]
    ELSE IF parts[1] \in {<<"P">>, <<"T">>}
    THEN [continues |-> TRUE, dict |-> [d EXCEPT ![parts[1][1]] = parts[2]]]
    ELSE IF parts[1] \in {<<"Q">>, <<"L">>}
    THEN [continues |-> TRUE,
          dict |-> [d EXCEPT ![parts[1][1]] = Append(@, parts[2])]]
    ELSE [continues |-> TRUE, dict |-> d]

\* C12 as stated: only trailing whitespace is removed before the split, so
\* the boolean returned and the accumulator left by a call on any raw line
\* are those of the parts of the raw line with its trailing whitespace
\* removed; a raw line of a tab and a content is an unrecognized tag.
C12_OnlyTrailingWhitespaceRemoved ==
    pc = "called" =>
        [continues |-> continues, dict |-> after] =
            ResultOfParts(split(rstrip(file_line)), before)

\* C13 as stated: the output files are touched by the final write of a
\* conversion only, so that an output path is untouched or holds the
\* complete document, and an output once written is never changed again.
C13_OutputAbsentOrComplete ==
    [][ /\ disk' # disk => pc = "write"
        /\ \A p \in 1..MaxFiles :
              disk[p].status = "written" => disk'[p] = disk[p] ]_vars

\* C13 amended: the output path is created, or truncated to an empty file,
\* when the conversion starts, before any line is read, and holds that empty
\* file until the document is written, once, when the loop has ended; it
\* never holds a part of the document. Every other output path is left as it
\* is; an output written for an earlier file changes only when a later file
\* maps to the same path.
C13_OutputEmptyUntilWritten ==
    /\ [](\A p \in 1..MaxFiles :
              disk[p].status = "empty" <=> (InConversion /\ p = outPath))
    /\ [][ /\ disk' # disk =>
                 \/ /\ pc = "driver" /\ pc' = "read"
                    /\ disk' = [disk EXCEPT ![outPath'] = Truncated]
                 \/ /\ pc = "write"
                    /\ disk' = [disk EXCEPT
                                   ![outPath] = Written(output_json_file_data)]
           /\ pc = "write" =>
                 disk'[outPath] = Written(output_json_file_data) ]_vars

\* the second file of the list maps to the output path of the first, which
\* held two records: while the second file is read that output is empty
C13_Witness ==
    /\ pc = "read"
    /\ fileNo = 2
    /\ returned = <<2>>
    /\ outPath = 1
    /\ disk[1] = Truncated
    /\ disk[2] = Absent
    /\ consumed # <<>>

\* C14: when the input directory does not exist the driver returns at once
\* and nothing has happened: the output directory is as it was (not created
\* when it was missing), no file is taken from the list, no conversion is
\* started and no output file exists.
C14_InvalidInputDirectoryHasNoEffect ==
    /\ [](~inputDirExists =>
            /\ pc \in {"start", "done"}
            /\ fileNo = 0
            /\ starts = <<>>
            /\ assigned = <<>>
            /\ \A p \in 1..MaxFiles : disk[p] = Absent)
    /\ [][ ~inputDirExists =>
              /\ pc' = "done"
              /\ outputDirExists' = outputDirExists
              /\ disk' = disk
              /\ record_id' = record_id ]_vars

\* the driver has returned; the output directory, missing at the call, is
\* still missing
C14_Witness ==
    /\ pc = "done"
    /\ ~inputDirExists
    /\ ~outputDirExists
    /\ fileNo = 0
    /\ \A p \in 1..MaxFiles : disk[p] = Absent

\* C15 as stated: when the output directory is missing and cannot be created,
\* whatever the cause, the driver converts nothing and returns normally.
C15_CreationFailureReturnsNormally ==
    [][ (pc = "start" /\ inputDirExists /\ ~outputDirExists
            /\ ~outputDirExists') =>
            (pc' = "done" /\ fileNo' = 0 /\ disk' = disk) ]_vars

\* the ids of the records of the output mapping
IdNums(data) == { data[k].id_num : k \in DOMAIN data }

\* C16: for a file read to its end without decoding error the id returned is
\* the start id plus the number of boundary lines: the j-th boundary line
\* emits the record with id startId + j - 1 whatever the accumulator holds,
\* and a boundary line at the start of the file or right behind another
\* boundary line emits the empty record under the key ''. The id_num values
\* of the mapping are pairwise distinct and lie in [startId, nextId).
C16_EveryBoundaryConsumesAnId ==
    (pc = "write" /\ ~decodeError) =>
        /\ meme_record_id = StartId + BoundaryCount(consumed)
        /\ \A j \in 1..Len(emitted) : emitted[j].id_num = StartId + j - 1
        /\ \A i \in 1..Len(consumed) :
              (/\ Parsed[consumed[i]].boundary
               /\ (i = 1 \/ Parsed[consumed[i - 1]].boundary)) =>
                  /\ emitted[BoundaryCount(SubSeq(consumed, 1, i))].url = <<>>
                  /\ <<>> \in DOMAIN output_json_file_data
        /\ \A k1, k2 \in DOMAIN output_json_file_data :
              k1 # k2 => output_json_file_data[k1].id_num
                             # output_json_file_data[k2].id_num
        /\ \A k \in DOMAIN output_json_file_data :
              /\ StartId <= output_json_file_data[k].id_num
              /\ output_json_file_data[k].id_num < meme_record_id

\* two blank lines at the start of the file, then a url and its boundary:
\* three ids are consumed, the mapping holds two records and the first id is
\* missing from it
C16_Witness ==
    /\ pc = "write"
    /\ ~decodeError
    /\ Len(consumed) = 4
    /\ consumed[1] = <<Newline>> /\ consumed[2] = <<Newline>>
    /\ meme_record_id = StartId + 3
    /\ IdNums(output_json_file_data) = {StartId + 1, StartId + 2}
    /\ <<>> \in DOMAIN output_json_file_data
    /\ output_json_file_data[<<>>].id_num = StartId + 1
    /\ output_json_file_data[<<>>].phrases = <<>>

\* C17: a record of the output mapping is not changed by the tagged lines
\* read after its insertion: the lists of the accumulator are never lists an
\* inserted record refers to, and a line that is not a boundary leaves the
\* mapping as it is. A boundary line leaves every record as it is but the one
\* under the url of the record it inserts, which is replaced as a whole; the
\* record under a key k always has the url k.
C17_InsertedRecordsAreStable ==
    /\ [](InConversion =>
            /\ listObjects.Q \notin listObjects.held
            /\ listObjects.L \notin listObjects.held
            /\ listObjects.Q # listObjects.L
            /\ \A k \in DOMAIN output_json_file_data :
                  output_json_file_data[k].url = k)
    /\ [][ (pc = "read" /\ pc' = "read") =>
              IF continues'
              THEN output_json_file_data' = output_json_file_data
              ELSE \A k \in DOMAIN output_json_file_data :
                      /\ k \in DOMAIN output_json_file_data'
                      /\ \/ output_json_file_data'[k] = output_json_file_data[k]
                         \/ /\ after'.P = k
                            /\ output_json_file_data'[k] =
                                  MemeRecord(after', meme_record_id) ]_vars

\* a record with one phrase is in the mapping; the next record's Q line has
\* been read into the new accumulator and the inserted record is as it was
C17_Witness ==
    /\ pc = "read"
    /\ Len(emitted) = 1
    /\ emitted[1].url = <<"http://a.com">>
    /\ Len(emitted[1].phrases) = 1
    /\ Len(individual_meme_data_dict.Q) = 1
    /\ individual_meme_data_dict.Q # emitted[1].phrases
    /\ output_json_file_data[<<"http://a.com">>] = emitted[1]
    /\ listObjects.held = {1, 2}
    /\ listObjects.Q = 3

\* C18: a call on a two-part line with a recognized tag changes the field of
\* that tag and nothing else: P sets the url, T the timestamp, Q and L add
\* the content as the last element of the phrases or of the links, and the
\* three other fields are what they were. No call changes the output mapping
\* or the id counters.
C18_OnlyTheTaggedFieldChanges ==
    pc = "called" =>
        /\ (TwoPart(file_line) /\ TagOf(file_line) = <<"P">>) =>
              after = [before EXCEPT !.P = ContentOf(file_line)]
        /\ (TwoPart(file_line) /\ TagOf(file_line) = <<"T">>) =>
              after = [before EXCEPT !.T = ContentOf(file_line)]
        /\ (TwoPart(file_line) /\ TagOf(file_line) = <<"Q">>) =>
              after = [before EXCEPT !.Q = Append(before.Q, ContentOf(file_line))]
        /\ (TwoPart(file_line) /\ TagOf(file_line) = <<"L">>) =>
              after = [before EXCEPT !.L = Append(before.L, ContentOf(file_line))]
        /\ output_json_file_data = EmptyDoc
        /\ meme_record_id = 0
        /\ record_id = 0

\* a P line met with every field of the accumulator set: the url is
\* replaced, the timestamp, the phrases and the links are kept
C18_Witness ==
    /\ pc = "called"
    /\ file_line = <<"P", Tab, "Q">>
    /\ before = [P |-> <<"X">>, T |-> <<"X">>,
                 Q |-> << <<"X">> >>, L |-> << <<"X">> >>]
    /\ after = [P |-> <<"Q">>, T |-> <<"X">>,
                Q |-> << <<"X">> >>, L |-> << <<"X">> >>]
    /\ continues

\* C19: when the loop of a file ends in a decoding error, the mapping holds
\* the records completed by the boundary lines read before the error (for
\* each url the last of them) and nothing of the pending fields; the next
\* step writes that mapping as the document and hands the driver the start
\* id plus the number of those boundary lines, and the next file of the
\* batch starts from that id: the ids of the run stay 0, 1, 2, ...
C19_DecodeErrorKeepsCompletedRecords ==
    /\ [](decodeError =>
            /\ Len(emitted) = BoundaryCount(consumed)
            /\ DOMAIN output_json_file_data = Urls(emitted)
            /\ \A k \in DOMAIN output_json_file_data :
                  output_json_file_data[k] = emitted[LastWithUrl(emitted, k)])
    /\ [](\A i \in 1..Len(assigned) : assigned[i] = i - 1)
    /\ [][ /\ decodeError =>
                 /\ pc' = "driver"
                 /\ disk'[outPath] = Written(output_json_file_data)
                 /\ record_id' = StartId + BoundaryCount(consumed)
                 /\ returned' = Append(returned, record_id')
           /\ (pc = "driver" /\ pc' = "read") =>
                 meme_record_id' =
                    IF returned = <<>> THEN 0 ELSE returned[Len(returned)] ]_vars

\* the second file of a batch: one record completed, a url pending, then
\* the error; the first file had given the ids 0 and 1
C19_Witness ==
    /\ pc = "write"
    /\ decodeError
    /\ fileNo = 2
    /\ starts = <<0, 2>>
    /\ meme_record_id = 3
    /\ Len(emitted) = 1
    /\ emitted[1].id_num = 2
    /\ individual_meme_data_dict.P # <<>>
    /\ individual_meme_data_dict.P \notin DOMAIN output_json_file_data
    /\ unread # <<>>

====
